---- MODULE Spec2Model ----
(***************************************************************************)
(* A model of the participation part of lovers_base/model.py: the tables  *)
(* `participation` and `status_log`, the constraints their columns        *)
(* declare, the relationships of class Participation and its accessors    *)
(* (status, get_companions, get_inviter).                                  *)
(*                                                                         *)
(* model.py defines no functions that write: rows are written by client   *)
(* code through the mapped classes.  The actions below are those writes,   *)
(* each one a committed unit of work, accepted or rejected by the          *)
(* constraints the column declarations state (PRIMARY KEY, UNIQUE,         *)
(* FOREIGN KEY) and by the cascade rule of the status_log relationship.    *)
(*                                                                         *)
(* Columns that no constraint or accessor reads (role, notes) are left    *)
(* out of the rows.  The tables `event` and `participant` hold a fixed set *)
(* of rows: the database named by LoversBase(database) outlives the        *)
(* program (model.py:61-62 creates only the missing tables).               *)
(*                                                                         *)
(* StatusLog.position is declared autoincrement=True (model.py:476-478)   *)
(* and nothing in model.py assigns it: the collection class of status_log  *)
(* is ordering_list('order') (model.py:424), which numbers the attribute   *)
(* `order` of the entries, not `position`.  The position of a new row is   *)
(* therefore generated by the database, from a counter of the table (a     *)
(* serial column).  Backends that cannot generate a member of a composite  *)
(* key reject the table definition, and the program does not start there.  *)
(*                                                                         *)
(* Three specifications: Spec, the writes to table participation (the      *)
(* invitation graph and the uniqueness of participations); SpecLog, the    *)
(* writes to table status_log by one session; SpecConcurrent, appends by   *)
(* several sessions at once, each in its two steps (load the collection,   *)
(* insert the row).                                                        *)
(***************************************************************************)
EXTENDS Integers, Sequences, FiniteSets, TLC

\* ---- bounds of the model ----
MaxParticipationId == 2
MaxPosition == 2

\* ---- rows and inputs ----
\* invitation_source_id is nullable (model.py:413); ids start at 1
NULL == 0

\* rows of table `event` and of table `participant`
event == {"e1", "e2"}
participant == {"a1", "a2"}

ParticipationIds == 1..MaxParticipationId

ParticipationStatus ==
    {"invited", "declined", "signed", "rejected", "queued",
     "accepted", "withdrew", "cancelled", "faded", "participated"}

\* the statuses the appends of the model draw from
StatusInputs == {"invited", "signed"}
\* timestamp values: 1 is earlier than 2
Timestamps == {1, 2}

\* the sessions (one per LoversBase object) that work on the same database
Sessions == {"s1", "s2"}

VARIABLES
    participation,   \* table participation: set of rows
    status_log,      \* table status_log: per participation id, its rows in list order
    position_seq,    \* the counter behind status_log.position
    loaded,          \* per session: the status_log collection it has loaded, or Idle
    appended,        \* per participation id: how many appends its sessions saw acknowledged
    result           \* outcome of the last unit of work

vars == <<participation, status_log, position_seq, loaded, appended, result>>

Idle == [id |-> NULL, length |-> 0]

Outcome(op, outcome, constraint) ==
    [op |-> op, outcome |-> outcome, constraint |-> constraint, pairFree |-> FALSE]

Init ==
    /\ participation = {}
    /\ status_log = [id \in ParticipationIds |-> <<>>]
    /\ position_seq = 0
    /\ loaded = [s \in Sessions |-> Idle]
    /\ appended = [id \in ParticipationIds |-> 0]
    /\ result = Outcome("LoversBase", "ok", "")

Ids == {p.id : p \in participation}
Row(id) == CHOOSE p \in participation : p.id = id
Pending == {s \in Sessions : loaded[s] # Idle}

\* ---- table participation (model.py:405-414) ----

\* id is the primary key
PrimaryKeyOk(id) == \A p \in participation : p.id # id

\* (UniqueOk as it would be with neither column declared unique)
UniqueOkNone(e, a) == TRUE
\* event_id is declared unique=True and participant_id is declared unique=True,
\* each on its own column
UniqueOk(e, a) ==
    /\ \A p \in participation : p.event_id # e
    /\ \A p \in participation : p.participant_id # a

\* the three ForeignKey declarations; a row may name itself as its invitation
\* source, the key is checked once the row is in the table
ForeignKeysOk(id, e, a, src) ==
    /\ e \in event
    /\ a \in participant
    /\ (src = NULL \/ src = id \/ src \in Ids)

\* session.add(Participation(id=..., event_id=..., participant_id=...,
\* invitation_source_id=...)); session.commit(); id is given by the client or
\* generated (autoincrement=True): any id, free or not, may be tried
AddParticipation(id, e, a, src) ==
    LET pairFree == ~ \E p \in participation : p.event_id = e /\ p.participant_id = a
        constraint == IF ~ PrimaryKeyOk(id) THEN "primary key"
                      ELSE IF ~ UniqueOk(e, a) THEN "unique"
                      ELSE IF ~ ForeignKeysOk(id, e, a, src) THEN "foreign key"
                      ELSE ""
        row == [id |-> id, event_id |-> e, participant_id |-> a,
                invitation_source_id |-> src]
        outcome == [Outcome("AddParticipation",
                            IF constraint = "" THEN "ok" ELSE "IntegrityError",
                            constraint)
                    EXCEPT !.pairFree = pairFree]
    IN /\ participation' = IF constraint = "" THEN participation \cup {row}
                           ELSE participation
       /\ result' = outcome
       /\ UNCHANGED <<status_log, position_seq, loaded, appended>>

\* p.event_id = e; p.participant_id = a; p.invitation_source_id = src;
\* session.commit(): the columns are plain mapped attributes, the row is updated
\* under the same constraints
UpdateParticipation(id, e, a, src) ==
    /\ id \in Ids
    /\ LET others == participation \ {Row(id)}
           constraint ==
               IF \E p \in others : p.event_id = e \/ p.participant_id = a
               THEN "unique"
               ELSE IF ~ ForeignKeysOk(id, e, a, src) THEN "foreign key"
               ELSE ""
           row == [id |-> id, event_id |-> e, participant_id |-> a,
                   invitation_source_id |-> src]
       IN /\ participation' = IF constraint = "" THEN others \cup {row}
                              ELSE participation
          /\ result' = Outcome("UpdateParticipation",
                               IF constraint = "" THEN "ok" ELSE "IntegrityError",
                               constraint)
    /\ UNCHANGED <<status_log, position_seq, loaded, appended>>

\* ---- table status_log and relationship Participation.status_log ----

\* the cascade of relationship status_log: the line cascade="all, delete-orphan"
\* is commented out ("Deletion should not happen"), which leaves the default
Cascade == {"save-update", "merge"}

\* (participation_id, position) is the primary key of status_log
StatusLogKeyOk(id, position) ==
    \A i \in 1..Len(status_log[id]) : status_log[id][i].position # position

\* (NewPosition as it would be if the list index were the position)
NewPositionFromList(order) == order
\* position is autoincrement=True: generated by the database from the counter of
\* the table.  The list index that ordering_list('order') computes goes to the
\* attribute `order`, and position does not read it.
NewPosition(order) == position_seq + 1

\* p.status_log.append(StatusLog(timestamp=t, status=st)); session.commit()
\* by the one session of a LoversBase object: the collection is loaded, the entry
\* gets order = len(list), the row is inserted
AppendStatus(id, st, t) ==
    /\ id \in Ids
    /\ position_seq < MaxPosition      \* the bound of the model on the counter
    /\ LET order == Len(status_log[id])
           position == NewPosition(order)
           entry == [position |-> position, order |-> order,
                     timestamp |-> t, status |-> st]
       IN /\ position_seq' = position_seq + 1
          /\ IF StatusLogKeyOk(id, position)
             THEN /\ status_log' = [status_log EXCEPT ![id] = Append(@, entry)]
                  /\ result' = Outcome("append", "ok", "")
             ELSE /\ UNCHANGED status_log
                  /\ result' = Outcome("append", "IntegrityError", "primary key")
    /\ UNCHANGED <<participation, loaded, appended>>

\* The same append by one of several sessions on the same database, in its two
\* steps.  First p.status_log is read: the collection is loaded.
Load(s, id) ==
    /\ loaded[s] = Idle
    /\ id \in Ids
    /\ position_seq + Cardinality(Pending) < MaxPosition
    /\ loaded' = [loaded EXCEPT ![s] = [id |-> id, length |-> Len(status_log[id])]]
    /\ UNCHANGED <<participation, status_log, position_seq, appended, result>>

\* Then the entry is appended to the loaded list and the row is inserted.
Flush(s, st, t) ==
    /\ loaded[s] # Idle
    /\ LET id == loaded[s].id
           order == loaded[s].length
           position == NewPosition(order)
           constraint == IF id \notin Ids THEN "foreign key"
                         ELSE IF ~ StatusLogKeyOk(id, position) THEN "primary key"
                         ELSE ""
           entry == [position |-> position, order |-> order,
                     timestamp |-> t, status |-> st]
       IN /\ position_seq' = position_seq + 1
          /\ IF constraint = ""
             THEN /\ status_log' = [status_log EXCEPT ![id] = Append(@, entry)]
                  /\ appended' = [appended EXCEPT ![id] = @ + 1]
                  /\ result' = Outcome("append", "ok", "")
             ELSE /\ UNCHANGED <<status_log, appended>>
                  /\ result' = Outcome("append", "IntegrityError", constraint)
    /\ loaded' = [loaded EXCEPT ![s] = Idle]
    /\ UNCHANGED participation

\* the list without its i-th element, renumbered as ordering_list renumbers it
Without(log, i) ==
    [k \in 1..(Len(log) - 1) |->
        [(IF k < i THEN log[k] ELSE log[k + 1]) EXCEPT !.order = k - 1]]

\* del p.status_log[i]; session.commit(): without delete-orphan the unit of work
\* tries to blank participation_id, a primary key column, and fails
RemoveStatus(id, i) ==
    /\ id \in Ids
    /\ i \in 1..Len(status_log[id])
    /\ IF "delete-orphan" \in Cascade
       THEN /\ status_log' = [status_log EXCEPT ![id] = Without(@, i)]
            /\ result' = Outcome("remove", "ok", "")
       ELSE /\ UNCHANGED status_log
            /\ result' = Outcome("remove", "AssertionError", "primary key")
    /\ UNCHANGED <<participation, position_seq, loaded, appended>>

\* entry.status = st; entry.timestamp = t; session.commit(): status and timestamp
\* are plain mapped columns, the row is updated
UpdateStatus(id, i, st, t) ==
    /\ id \in Ids
    /\ i \in 1..Len(status_log[id])
    /\ status_log' = [status_log EXCEPT ![id][i].status = st, ![id][i].timestamp = t]
    /\ result' = Outcome("UpdateStatus", "ok", "")
    /\ UNCHANGED <<participation, position_seq, loaded, appended>>

\* session.delete(entry); session.commit(): no row refers to a status_log row,
\* the row is deleted
DeleteStatus(id, i) ==
    /\ id \in Ids
    /\ i \in 1..Len(status_log[id])
    /\ status_log' = [status_log EXCEPT ![id] =
                         [k \in 1..(Len(@) - 1) |-> IF k < i THEN @[k] ELSE @[k + 1]]]
    /\ result' = Outcome("DeleteStatus", "ok", "")
    /\ UNCHANGED <<participation, position_seq, loaded, appended>>

\* session.delete(p); session.commit(): rows that name p as their invitation
\* source are set to NULL; rows of its status_log are handled as in RemoveStatus
DeleteParticipation(id) ==
    /\ id \in Ids
    /\ IF status_log[id] # <<>> /\ "delete" \notin Cascade
       THEN /\ UNCHANGED <<participation, status_log, appended>>
            /\ result' = Outcome("delete", "AssertionError", "primary key")
       ELSE /\ participation' =
                 {[p EXCEPT !.invitation_source_id = IF @ = id THEN NULL ELSE @] :
                    p \in participation \ {Row(id)}}
            /\ status_log' = [status_log EXCEPT ![id] = <<>>]
            /\ appended' = [appended EXCEPT ![id] = 0]
            /\ result' = Outcome("delete", "ok", "")
    /\ UNCHANGED <<position_seq, loaded>>

\* ---- accessors of class Participation ----

\* (status as it would be if the entry with the latest timestamp were current)
status_by_timestamp(id) ==
    IF status_log[id] = <<>> THEN "IndexError"
    ELSE LET log == status_log[id]
             i == CHOOSE k \in 1..Len(log) :
                    \A j \in 1..Len(log) :
                       \/ log[j].timestamp < log[k].timestamp
                       \/ (log[j].timestamp = log[k].timestamp /\ j <= k)
         IN log[i].status
\* return self.status_log[-1].status
status(id) ==
    IF status_log[id] = <<>> THEN "IndexError"
    ELSE status_log[id][Len(status_log[id])].status

\* what a relationship attribute holds: None, one object, or a list of objects
RelNone == [kind |-> "None", rows |-> {}]
RelObject(row) == [kind |-> "object", rows |-> {row}]
RelList(rows) == [kind |-> "list", rows |-> rows]

\* what a method call gives: the exception it raised, or its value as a set of
\* references (empty for None and for the empty tuple)
Raised(exception) == [raised |-> exception, value |-> {}]
Returned(refs) == [raised |-> "", value |-> refs]

\* participant = relationship(lambda: Event, uselist=False): the join follows
\* participation.event_id to table event
Participation_participant(p) == [table |-> "event", id |-> p.event_id]

\* invitation_targets = relationship(Participation, remote_side=[id], ...):
\* remote_side=[id] makes it the many-to-one side, the row that
\* invitation_source_id names
invitation_targets(p) ==
    IF p.invitation_source_id = NULL THEN RelNone
    ELSE RelObject(Row(p.invitation_source_id))

\* backref='invitation_source': the other side, the list of the rows that name p
invitation_source(p) ==
    RelList({q \in participation : q.invitation_source_id = p.id})

\* return tuple(target.participant for target in self.invitation_targets)
get_companions(p) ==
    LET targets == invitation_targets(p)
    IN IF targets.kind = "list"
       THEN Returned({Participation_participant(target) : target \in targets.rows})
       ELSE Raised("TypeError")

\* source = self.invitation_source
\* return source.participant if source is not None else None
get_inviter(p) ==
    LET source == invitation_source(p)
    IN IF source.kind = "None" THEN Returned({})
       ELSE IF source.kind = "object"
       THEN Returned({Participation_participant(r) : r \in source.rows})
       ELSE Raised("AttributeError")

\* ---- the specifications ----

\* The writes to table participation.  They read status_log only in
\* DeleteParticipation, which no log stops here.
Next ==
    \/ \E id \in ParticipationIds, e \in event, a \in participant,
          src \in {NULL} \cup ParticipationIds : AddParticipation(id, e, a, src)
    \/ \E id \in ParticipationIds, e \in event, a \in participant,
          src \in {NULL} \cup ParticipationIds : UpdateParticipation(id, e, a, src)
    \/ \E id \in ParticipationIds : DeleteParticipation(id)

Spec == Init /\ [][Next]_vars

\* The writes to table status_log by the session of one LoversBase object, on
\* participations created without an invitation source (no write to status_log
\* reads event_id, participant_id or invitation_source_id).
NextLog ==
    \/ \E id \in ParticipationIds, e \in event, a \in participant :
          AddParticipation(id, e, a, NULL)
    \/ \E id \in ParticipationIds, st \in StatusInputs, t \in Timestamps :
          AppendStatus(id, st, t)
    \/ \E id \in ParticipationIds, i \in 1..MaxPosition : RemoveStatus(id, i)
    \/ \E id \in ParticipationIds, i \in 1..MaxPosition,
          st \in StatusInputs, t \in Timestamps : UpdateStatus(id, i, st, t)
    \/ \E id \in ParticipationIds, i \in 1..MaxPosition : DeleteStatus(id, i)
    \/ \E id \in ParticipationIds : DeleteParticipation(id)

SpecLog == Init /\ [][NextLog]_vars

\* Several LoversBase objects on one database, appending concurrently.
NextConcurrent ==
    \/ \E id \in ParticipationIds, e \in event, a \in participant :
          AddParticipation(id, e, a, NULL)
    \/ \E s \in Sessions, id \in ParticipationIds : Load(s, id)
    \/ \E s \in Sessions, st \in StatusInputs, t \in Timestamps : Flush(s, st, t)
    \/ \E id \in ParticipationIds : DeleteParticipation(id)

SpecConcurrent == Init /\ [][NextConcurrent]_vars

\* ---- properties ----

\* the entry of a non-empty log that has the greatest position
MaxPositionEntry(id) ==
    LET log == status_log[id]
        i == CHOOSE k \in 1..Len(log) :
               \A j \in 1..Len(log) : log[j].position <= log[k].position
    IN log[i]

C2_PositionsPerParticipation ==
    \A id \in ParticipationIds :
        \E first \in {0, 1} :
            \A i \in 1..Len(status_log[id]) :
                status_log[id][i].position = first + i - 1

\* C3: with several sessions appending to the same participation at once, no two
\* entries of a participation have the same position, every acknowledged append
\* is stored, and no append is turned down for its position.
C3_NoDuplicateNoLoss ==
    /\ \A id \in ParticipationIds :
          /\ \A i, j \in 1..Len(status_log[id]) :
                i # j => status_log[id][i].position # status_log[id][j].position
          /\ Len(status_log[id]) = appended[id]
    /\ ~ (result.op = "append" /\ result.constraint = "primary key")

\* C3, its case: two sessions loaded the same list of one participation, and both
\* appended to it (both entries were given the same list index).
C3_OverlappingAppends ==
    \E id \in ParticipationIds :
        \E i, j \in 1..Len(status_log[id]) :
            i # j /\ status_log[id][i].order = status_log[id][j].order

\* C4: the status log is append-only: a step leaves every entry of every log in
\* place and unchanged, and adds at most one entry, at the end.
C4_AppendOnly ==
    [][\A id \in ParticipationIds :
          /\ Len(status_log'[id]) >= Len(status_log[id])
          /\ Len(status_log'[id]) <= Len(status_log[id]) + 1
          /\ \A i \in 1..Len(status_log[id]) : status_log'[id][i] = status_log[id][i]
      ]_vars

\* C5: every participation has at least one status-log entry, so that its
\* current status is always defined.
C5_NeverEmptyLog ==
    \A p \in participation :
        status_log[p.id] # <<>> /\ status(p.id) \in ParticipationStatus

\* the ids reached from id by following invitation_source_id 1..n times
RECURSIVE Inviters(_, _)
Inviters(id, n) ==
    IF n = 0 \/ id \notin Ids \/ Row(id).invitation_source_id = NULL THEN {}
    ELSE {Row(id).invitation_source_id}
         \cup Inviters(Row(id).invitation_source_id, n - 1)

\* C6: the invitation graph is acyclic: following invitation_source_id from a
\* participation never leads back to it.
C6_Acyclic ==
    \A p \in participation : p.id \notin Inviters(p.id, MaxParticipationId)

\* C7: a participation with an invitation source has the event of that source.
C7_SameEventAsSource ==
    \A p \in participation :
        p.invitation_source_id # NULL =>
            \E q \in participation :
                q.id = p.invitation_source_id /\ q.event_id = p.event_id

C9_UniquePerPairOnly ==
    (result.op = "AddParticipation" /\ result.constraint = "unique")
        => ~ result.pairFree

Participant(id) == [table |-> "participant", id |-> id]

\* C10: get_inviter gives the participant of the invitation source, or None, and
\* get_companions gives the participants of the participations that name this
\* one as their invitation source.
C10_InverseViews ==
    \A p \in participation :
        /\ get_inviter(p) =
              Returned(IF p.invitation_source_id = NULL THEN {}
                       ELSE {Participant(Row(p.invitation_source_id).participant_id)})
        /\ get_companions(p) =
              Returned({Participant(q.participant_id) :
                          q \in {r \in participation : r.invitation_source_id = p.id}})

====
